---------------------------- MODULE Spec2Model ----------------------------
(***************************************************************************)
(* A model of crypto_correlation.py: the two-phase parallel acquisition of *)
(* daily price series (get_historical_data_parallel), the sequential       *)
(* per-symbol fallback chain (get_historical_data), and the per-timeframe  *)
(* correlation pipeline of main() (returns, coverage gating, pairwise      *)
(* correlation, insufficient-data pairs, ranking).                         *)
(*                                                                         *)
(* Numbers are fixed point.  A close is an integer number of quarters      *)
(* (4 is 1.0, 8 is 2.0, 2 is 0.5) and Null stands for NaN.  A return is    *)
(* an integer number of 1/FixedPoint.  A correlation is an integer number  *)
(* of 1/10000 (round(c, 4)), a combined change an integer number of        *)
(* hundredths of a percent (round(x, 2)).  A market cap is an integer      *)
(* number of 10,000 USD.  Timestamps are day numbers; Today is the day of  *)
(* datetime.now().                                                         *)
(***************************************************************************)
EXTENDS Integers, Sequences, FiniteSets, TLC

VARIABLES
    \* ---- main() ----
    top_coins,          \* list of [symbol, mcap] returned by get_top_coins
    coin_data_results,  \* ordered dict symbol -> DataFrame (insertion order)
    errors,             \* dict symbol -> error, as the set of its keys
    all_coin_data,      \* ordered dict symbol -> {data, mcap}
    all_returns,        \* ordered dict symbol -> return series
    outputs,            \* per timeframe: "pending", "skipped" or its results
    period,             \* index of the timeframe the loop of main is at
    pc,                 \* position of main()
    \* ---- the two upstream sources ----
    binance_klines,     \* symbol -> klines the primary source holds for its pair
    coingecko_prices,   \* symbol -> price samples the fallback source holds
    coingecko_listed,   \* symbol -> whether /coins/list of the fallback has it
    \* ---- get_historical_data_parallel() ----
    symbols,            \* the symbols of the argument list, in its order
    binance_futures,    \* futures of binance_executor, in submission order
    coingecko_futures,  \* futures of coingecko_executor, in submission order
    need_coingecko,     \* set of symbols that need the fallback
    acq_results,        \* its dict `results`: ordered, symbol -> DataFrame
    acq_errors,         \* its dict `errors`: ordered, symbol -> cause
    acq_pc,             \* position of the calling thread
    \* ---- get_historical_data() ----
    fetch_symbol,       \* its argument `symbol`
    attempted,          \* the queries made so far, with their outcome
    outcome,            \* what the call has returned or raised
    fetch_pc,           \* position of the call
    \* ---- get_top_coins() ----
    ranking,            \* the pages the ranking source holds
    collected,          \* its list `coins`
    page,               \* its variable `page`
    top_pc,             \* position of the call
    \* ---- _fetch_historical_data() on its own ----
    raw_klines,         \* the klines of the response
    normalized,         \* what the call has returned or raised
    fill_pc,            \* position of the call
    \* ---- _fetch_coingecko_data() on its own ----
    responses,          \* what the fallback source answers, attempt by attempt
    attempt,            \* the loop variable `attempt`, counted from 0
    waits,              \* the time.sleep(delay) calls made, in order
    retry_outcome,      \* what the call has returned or raised
    retry_pc            \* position of the call

mainVars == <<top_coins, coin_data_results, errors, all_coin_data,
              all_returns, outputs, period, pc>>

upstreamVars == <<binance_klines, coingecko_prices, coingecko_listed>>

acqVars == <<symbols, binance_futures, coingecko_futures, need_coingecko,
             acq_results, acq_errors, acq_pc>>

fetchVars == <<fetch_symbol, attempted, outcome, fetch_pc>>

topVars == <<ranking, collected, page, top_pc>>

fillVars == <<raw_klines, normalized, fill_pc>>

retryVars == <<responses, attempt, waits, retry_outcome, retry_pc>>

\* the variables of the three functions modelled on their own
aloneVars == <<topVars, fillVars, retryVars>>

vars == <<mainVars, upstreamVars, acqVars, fetchVars, aloneVars>>

----------------------------------------------------------------------------
(* Bounds and program constants *)

\* Largest number of daily rows an upstream returns for one symbol (the
\* request asks for 90 days; an asset listed late has fewer candles).
MaxRows == 9

\* Resolution of a return: 1/FixedPoint.
FixedPoint == 4

\* Day number of datetime.now(); rows carry day numbers 1..Today.
Today == MaxRows

\* NaN in a close column.
Null == 0

\* timeframes of main(): days and threshold (in percent).
Timeframes ==
    << [label |-> "7d",  days |-> 7,  threshold |-> 90],
       [label |-> "30d", days |-> 30, threshold |-> 85],
       [label |-> "90d", days |-> 90, threshold |-> 80] >>

\* required_points = int(days * threshold)
RequiredPoints(tf) == (tf.days * tf.threshold) \div 100

\* period_start = datetime.now() - timedelta(days): a row stamped at
\* midnight of day t satisfies index >= period_start iff t >= Today-days+1.
PeriodStart(tf) == Today - tf.days + 1

----------------------------------------------------------------------------
(* Sequence helpers *)

Range(s) == { s[i] : i \in DOMAIN s }

\* keys of an ordered dict (a sequence of records with a symbol field)
Keys(d) == { d[i].symbol : i \in DOMAIN d }

\* d[key] of an ordered dict
Lookup(d, key) == d[CHOOSE i \in DOMAIN d : d[i].symbol = key]

RECURSIVE SumSeq(_)
SumSeq(s) == IF s = <<>> THEN 0 ELSE Head(s) + SumSeq(Tail(s))

\* x / y rounded to the nearest integer, ties to even (round(), "%.2f")
RoundDiv(x, y) ==
    LET q == x \div y
        r == x % y
    IN  IF 2 * r > y THEN q + 1
        ELSE IF 2 * r < y THEN q
        ELSE IF q % 2 = 0 THEN q ELSE q + 1

----------------------------------------------------------------------------
(* Arithmetic on naturals beyond the machine word: little-endian limbs in  *)
(* base 10000, used to round a correlation coefficient to four decimals.   *)

RECURSIVE BigOf(_)
BigOf(n) == IF n < 10000 THEN <<n>> ELSE <<n % 10000>> \o BigOf(n \div 10000)

RECURSIVE BigMulSmall(_, _, _)
\* big * m + carry, for m <= 20000
BigMulSmall(big, m, carry) ==
    IF big = <<>> THEN (IF carry = 0 THEN <<>> ELSE BigOf(carry))
    ELSE LET p == Head(big) * m + carry
         IN  <<p % 10000>> \o BigMulSmall(Tail(big), m, p \div 10000)

RECURSIVE BigTrim(_)
\* without leading (most significant) zero limbs
BigTrim(big) ==
    IF big = <<>> THEN <<>>
    ELSE IF big[Len(big)] = 0 THEN BigTrim(SubSeq(big, 1, Len(big) - 1))
    ELSE big

RECURSIVE BigLeqTrimmed(_, _)
BigLeqTrimmed(a, b) ==
    IF Len(a) # Len(b) THEN Len(a) < Len(b)
    ELSE IF a = <<>> THEN TRUE
    ELSE IF a[Len(a)] # b[Len(b)] THEN a[Len(a)] < b[Len(b)]
    ELSE BigLeqTrimmed(SubSeq(a, 1, Len(a) - 1), SubSeq(b, 1, Len(b) - 1))

BigLeq(a, b) == BigLeqTrimmed(BigTrim(a), BigTrim(b))

RECURSIVE MaxHalfSteps(_, _, _, _)
\* the largest h in lo..hi with h*h*d <= 20000*20000*c, that is
\* floor(20000 * sqrt(c / d)), by bisection
MaxHalfSteps(lo, hi, c, d) ==
    IF lo >= hi THEN lo
    ELSE LET mid == (lo + hi + 1) \div 2
             lhs == BigMulSmall(BigMulSmall(BigOf(d), mid, 0), mid, 0)
             rhs == BigMulSmall(BigMulSmall(BigOf(c), 20000, 0), 20000, 0)
         IN  IF BigLeq(lhs, rhs) THEN MaxHalfSteps(mid, hi, c, d)
             ELSE MaxHalfSteps(lo, mid - 1, c, d)

----------------------------------------------------------------------------
(* DataFrames and return series *)

\* A DataFrame is a sequence of rows [ts, close] with increasing ts; a
\* return series is a sequence of points [ts, ret].

Index(series) == { series[i].ts : i \in DOMAIN series }

\* df['close'].pct_change(fill_method=None).dropna(): the change against the
\* previous row, NaN (dropped) for the first row and wherever either close
\* is NaN.
PctChangeDropna(df) ==
    LET n == Len(df)
        Defined(i) == i >= 2 /\ df[i].close # Null /\ df[i-1].close # Null
        Point(i) == [ts  |-> df[i].ts,
                     ret |-> ((df[i].close - df[i-1].close) * FixedPoint)
                                \div df[i-1].close]
        idx == SelectSeq([i \in 1..n |-> i], Defined)
    IN  [k \in 1..Len(idx) |-> Point(idx[k])]

\* returns[returns.index >= period_start]
FilterPeriod(returns, tf) ==
    LET InPeriod(p) == p.ts >= PeriodStart(tf)
    IN  SelectSeq(returns, InPeriod)

\* series[dates]: the points of a series at the given dates, in index order
At(series, dates) ==
    LET In(p) == p.ts \in dates
    IN  SelectSeq(series, In)

----------------------------------------------------------------------------
(* The two upstream sources and the fetch helpers *)

Symbols == {"BTC", "ETH", "USDT", "XRP"}

\* The close of an asset on day t on either source (quarters of a USD);
\* USDT and the USDCUSDT pair do not move.
Price(sym, t) ==
    CASE sym = "BTC" -> IF t % 2 = 1 THEN FixedPoint ELSE 2 * FixedPoint
      [] sym = "ETH" -> IF t % 4 \in {0, 1} THEN FixedPoint ELSE 2 * FixedPoint
      [] sym = "XRP" -> IF t % 3 = 0 THEN 2 * FixedPoint ELSE FixedPoint
      [] OTHER       -> FixedPoint

\* daily rows first..last of an asset, NaN on the days in nulls
Rows(sym, first, last, nulls) ==
    [k \in 1..(last - first + 1) |->
        [ts    |-> first + k - 1,
         close |-> IF first + k - 1 \in nulls THEN Null
                   ELSE Price(sym, first + k - 1)]]

\* The klines the primary source may hold for an asset's pair: the whole
\* range, an asset listed 7 days ago, candles ending one or two days ago, a
\* single candle, candles with one or with several null closes, none.
KlineChoices(sym) ==
    { Rows(sym, 1, Today, {}),
      Rows(sym, Today - 6, Today, {}),
      Rows(sym, 1, Today - 1, {}),
      Rows(sym, 1, Today - 2, {}),
      Rows(sym, Today, Today, {}),
      Rows(sym, 1, Today, {3}),
      Rows(sym, 1, Today, {3, 4}),
      <<>> }

\* The raw (timestamp, price) samples the fallback source may hold for an
\* asset: two samples a day, two a day but none on day 2, or none at all.
\* A sample is [ts |-> its day, close |-> its price].
Samples(sym, skipped) ==
    LET days == SelectSeq([t \in 1..Today |-> t], LAMBDA t : t \notin skipped)
    IN  [k \in 1..(2 * Len(days)) |->
            [ts    |-> days[(k + 1) \div 2],
             close |-> IF k % 2 = 1 THEN Price(sym, days[(k + 1) \div 2] + 1)
                       ELSE Price(sym, days[(k + 1) \div 2])]]

SampleChoices(sym) == { Samples(sym, {}), Samples(sym, {2}), <<>> }

\* df['close'].isnull().sum()
NullCount(df) == Cardinality({ i \in DOMAIN df : df[i].close = Null })

\* df['close'].ffill(limit=3): a NaN takes the last valid close before it
\* when at most 3 consecutive NaN reach back to that close
Ffill(df) ==
    LET Valid(i) == { j \in 1..i : df[j].close # Null }
        Last(i) == CHOOSE j \in Valid(i) : \A k \in Valid(i) : k <= j
    IN  [i \in DOMAIN df |->
            IF df[i].close # Null \/ Valid(i) = {} \/ i - Last(i) > 3
            THEN df[i]
            ELSE [df[i] EXCEPT !.close = df[Last(i)].close]]

\* _fetch_historical_data without the data quality check of line 159
FetchHistoricalDataUnchecked(transport_ok, klines) ==
    IF ~transport_ok THEN [ok |-> FALSE, df |-> <<>>, cause |-> "network"]
    ELSE IF klines = <<>> THEN [ok |-> FALSE, df |-> <<>>, cause |-> "no_data"]
    ELSE [ok |-> TRUE, df |-> Ffill(klines), cause |-> ""]

\* _fetch_historical_data(trading_pair, ...): the klines of the response (or
\* a transport error) to a frame of closes, or an exception
FetchHistoricalData(transport_ok, klines) ==
    IF ~transport_ok THEN [ok |-> FALSE, df |-> <<>>, cause |-> "network"]
    ELSE IF klines = <<>> THEN [ok |-> FALSE, df |-> <<>>, cause |-> "no_data"]
    ELSE IF 10 * NullCount(klines) > Len(klines)
    THEN [ok |-> FALSE, df |-> <<>>, cause |-> "missing_values"]
    ELSE [ok |-> TRUE, df |-> Ffill(klines), cause |-> ""]

\* df.resample('D').last(): one row a day from the first to the last day
\* sampled, the last price of the day, NaN for a day without a sample
ResampleLast(samples) ==
    IF samples = <<>> THEN <<>>
    ELSE LET first == samples[1].ts
             last  == samples[Len(samples)].ts
             Of(t) == { i \in DOMAIN samples : samples[i].ts = t }
             LastOf(t) == CHOOSE i \in Of(t) : \A j \in Of(t) : j <= i
         IN  [k \in 1..(last - first + 1) |->
                 [ts    |-> first + k - 1,
                  close |-> IF Of(first + k - 1) = {} THEN Null
                            ELSE samples[LastOf(first + k - 1)].close]]

\* _fetch_coingecko_data(symbol, ...): listed says whether /coins/list holds
\* the symbol; a transport error is one that outlasted the retries
FetchCoingeckoData(transport_ok, listed, samples) ==
    IF ~transport_ok THEN [ok |-> FALSE, df |-> <<>>, cause |-> "network"]
    ELSE IF ~listed THEN [ok |-> FALSE, df |-> <<>>, cause |-> "no_id"]
    ELSE [ok |-> TRUE, df |-> ResampleLast(samples), cause |-> ""]

\* df['close'] = 1 / df['close']
Invert(df) ==
    [i \in DOMAIN df |->
        IF df[i].close = Null THEN df[i]
        ELSE [df[i] EXCEPT !.close = (FixedPoint * FixedPoint) \div df[i].close]]

\* the trading pair queried on the primary source for a symbol
TradingPair(symbol) ==
    IF symbol = "USDT" THEN [base |-> "USDC", quote |-> "USDT"]
    ELSE [base |-> symbol, quote |-> "USDT"]

\* fetch_single_coin_binance(symbol) of get_historical_data_parallel
FetchSingleCoinBinance(symbol, transport_ok, klines) ==
    LET got == FetchHistoricalData(transport_ok, klines)
    IN  IF got.ok /\ symbol = "USDT" THEN [got EXCEPT !.df = Invert(got.df)]
        ELSE got

\* fetch_single_coin_coingecko(symbol) of get_historical_data_parallel
FetchSingleCoinCoingecko(symbol, transport_ok, listed, samples) ==
    FetchCoingeckoData(transport_ok, listed, samples)

\* The frames acquisition can store for a symbol.
AcquiredSeries(sym) ==
    { FetchSingleCoinBinance(sym, TRUE, k).df :
        k \in { c \in KlineChoices(sym) : FetchHistoricalData(TRUE, c).ok } }
    \cup { FetchSingleCoinCoingecko(sym, TRUE, TRUE, m).df :
             m \in SampleChoices(sym) }

----------------------------------------------------------------------------
(* Pair results *)

\* The 'Correlation' column holds a float (kind "num", val in 1/10000, or
\* kind "nan") or an error string "err:<coin>_insufficient_data(h/n)"
\* (kind "err").  Every value has the same fields.
NumCorr(v) == [kind |-> "num", val |-> v, coin |-> "", have |-> 0, need |-> 0]
NanCorr == [kind |-> "nan", val |-> 0, coin |-> "", have |-> 0, need |-> 0]
ErrCorr(c, h, n) ==
    [kind |-> "err", val |-> 0, coin |-> c, have |-> h, need |-> n]

\* abs(np.corrcoef(x, y)[0, 1]) rounded to 4 decimals.  With n points,
\* r = cov / sqrt(vx * vy); numpy divides 0 by 0 for a series of zero
\* variance and returns nan (a warning, no exception).
Correlation(xs, ys) ==
    LET n   == Len(xs)
        sx  == SumSeq(xs)
        sy  == SumSeq(ys)
        sxy == SumSeq([i \in 1..n |-> xs[i] * ys[i]])
        sxx == SumSeq([i \in 1..n |-> xs[i] * xs[i]])
        syy == SumSeq([i \in 1..n |-> ys[i] * ys[i]])
        cov == n * sxy - sx * sy
        vx  == n * sxx - sx * sx
        vy  == n * syy - sy * sy
    IN  IF vx = 0 \/ vy = 0 THEN NanCorr
        ELSE NumCorr((MaxHalfSteps(0, 20000, cov * cov, vx * vy) + 1) \div 2)

\* format_market_cap(value), value in units of 10,000 USD: the unit and the
\* number of hundredths of it ("$1.52B" is <<"B", 152>>).
FormatMarketCap(value) ==
    IF value >= 100000000 THEN <<"T", RoundDiv(value, 1000000)>>
    ELSE IF value >= 100000 THEN <<"B", RoundDiv(value, 1000)>>
    ELSE IF value >= 100 THEN <<"M", value>>
    ELSE <<"", value * 1000000>>

\* ((last - first) / first * 100 for each coin, averaged), round(., 2):
\* hundredths of a percent
CombinedChange(c1, c2) ==
    LET f1 == c1[1].close
        l1 == c1[Len(c1)].close
        f2 == c2[1].close
        l2 == c2[Len(c2)].close
    IN  RoundDiv(5000 * ((l1 - f1) * f2 + (l2 - f2) * f1), f1 * f2)

\* the index pairs (i, j), i < j, of `for i, a in enumerate(l): for b in
\* l[i+1:]`, in iteration order
PairSeq(n) ==
    LET all == [k \in 1..(n * n) |-> <<((k - 1) \div n) + 1, ((k - 1) % n) + 1>>]
        Upper(p) == p[1] < p[2]
    IN  SelectSeq(all, Upper)

\* calculate_correlations(returns_data, threshold_points, all_coin_data)
CalculateCorrelations(returns_data, threshold_points, coin_data) ==
    LET Dates(p) == Index(returns_data[p[1]].returns)
                        \cap Index(returns_data[p[2]].returns)
        Common(p) == Cardinality(Dates(p)) >= threshold_points
        valid == SelectSeq(PairSeq(Len(returns_data)), Common)
        Rets(series) == [i \in DOMAIN series |-> series[i].ret]
        Result(p) ==
            LET coin1 == returns_data[p[1]].symbol
                coin2 == returns_data[p[2]].symbol
                d1 == Lookup(coin_data, coin1)
                d2 == Lookup(coin_data, coin2)
            IN  [pair |-> <<coin1, coin2>>,
                 correlation |->
                     Correlation(Rets(At(returns_data[p[1]].returns, Dates(p))),
                                 Rets(At(returns_data[p[2]].returns, Dates(p)))),
                 mcap |-> FormatMarketCap(d1.mcap + d2.mcap),
                 change |-> <<CombinedChange(At(d1.data, Dates(p)),
                                             At(d2.data, Dates(p)))>>]
    IN  [k \in 1..Len(valid) |-> Result(valid[k])]

\* main(): "Add pairs with insufficient data".  without: the ordered dict
\* coins_without_enough_data, symbol -> have (the tag's first number).
InsufficientPairs(coin_data, without, required_points) ==
    LET Flagged(p) == coin_data[p[1]].symbol \in Keys(without)
                      \/ coin_data[p[2]].symbol \in Keys(without)
        flagged == SelectSeq(PairSeq(Len(coin_data)), Flagged)
        Result(p) ==
            LET coin1 == coin_data[p[1]].symbol
                coin2 == coin_data[p[2]].symbol
                error_coin == IF coin1 \in Keys(without) THEN coin1 ELSE coin2
            IN  [pair |-> <<coin1, coin2>>,
                 correlation |-> ErrCorr(error_coin,
                                         Lookup(without, error_coin).have,
                                         required_points),
                 mcap |-> FormatMarketCap(coin_data[p[1]].mcap
                                          + coin_data[p[2]].mcap),
                 change |-> <<>>]
    IN  [k \in 1..Len(flagged) |-> Result(flagged[k])]

----------------------------------------------------------------------------
(* Ranking: df_results.sort_values(['is_error', 'Correlation'],            *)
(*                                 ascending=[True, False])                *)

\* str(x).startswith('err:')
IsError(r) == r.correlation.kind = "err"

\* The symbols of the model in the order of their strings.
SymbolOrder == <<"BTC", "ETH", "USDT", "XRP">>

SymbolRank(sym) == CHOOSE i \in DOMAIN SymbolOrder : SymbolOrder[i] = sym

\* a < b for two error strings "err:<coin>_insufficient_data(<have>/<need>)":
\* the coin decides (no symbol of the model is a prefix of another), then
\* the digits of have (one digit in the model)
TagLess(a, b) ==
    \/ SymbolRank(a.coin) < SymbolRank(b.coin)
    \/ a.coin = b.coin /\ a.have < b.have
    \/ a.coin = b.coin /\ a.have = b.have /\ a.need < b.need

\* SortsBefore without the is_error key: sort_values('Correlation',
\* ascending=False) over the same categories (strings after numbers, so
\* before them when descending).
SortsBeforeCorrelationOnly(a, b) ==
    IF IsError(a) # IsError(b) THEN IsError(a)
    ELSE IF IsError(a) THEN TagLess(b.correlation, a.correlation)
    ELSE \/ a.correlation.kind = "num" /\ b.correlation.kind = "nan"
         \/ /\ a.correlation.kind = "num" /\ b.correlation.kind = "num"
            /\ a.correlation.val > b.correlation.val

\* a sorts strictly before b.  With two keys pandas sorts the codes of each
\* column's ordered categories (numbers before strings, each ascending,
\* NaN last whatever the direction) with a stable lexsort.
SortsBefore(a, b) ==
    IF IsError(a) # IsError(b) THEN ~IsError(a)
    ELSE IF IsError(a) THEN TagLess(b.correlation, a.correlation)
    ELSE \/ a.correlation.kind = "num" /\ b.correlation.kind = "nan"
         \/ /\ a.correlation.kind = "num" /\ b.correlation.kind = "num"
            /\ a.correlation.val > b.correlation.val

RECURSIVE InsertSorted(_, _)
\* x placed before the first element that sorts strictly after it
InsertSorted(sorted, x) ==
    IF sorted = <<>> THEN <<x>>
    ELSE IF SortsBefore(x, Head(sorted)) THEN <<x>> \o sorted
    ELSE <<Head(sorted)>> \o InsertSorted(Tail(sorted), x)

RECURSIVE RankResults(_)
RankResults(results) ==
    IF results = <<>> THEN <<>>
    ELSE InsertSorted(RankResults(SubSeq(results, 1, Len(results) - 1)),
                      results[Len(results)])

----------------------------------------------------------------------------
(* main(): from the acquired series to the ranked output of each timeframe *)

\* next(m for s, m in top_coins if s == symbol)
McapOf(coins, symbol) ==
    coins[CHOOSE i \in DOMAIN coins :
            /\ coins[i].symbol = symbol
            /\ \A j \in 1..(i - 1) : coins[j].symbol # symbol].mcap

\* AllCoinData pairing the frames with the universe by position,
\* zip(top_coins, coin_data_results), instead of looking the symbol up.
AllCoinDataByPosition(coins, data_results) ==
    LET NonEmpty(e) == e.data # <<>>
        kept == SelectSeq(data_results, NonEmpty)
    IN  [k \in 1..Len(kept) |->
            [symbol |-> kept[k].symbol,
             data   |-> kept[k].data,
             mcap   |-> coins[k].mcap]]

\* "Process successful results": the non-empty frames, with their market cap
AllCoinData(coins, data_results) ==
    LET NonEmpty(e) == e.data # <<>>
        kept == SelectSeq(data_results, NonEmpty)
    IN  [k \in 1..Len(kept) |->
            [symbol |-> kept[k].symbol,
             data   |-> kept[k].data,
             mcap   |-> McapOf(coins, kept[k].symbol)]]

\* "Calculate returns for all timeframes at once": symbols with at least one
\* return
AllReturns(coin_data) ==
    LET all == [k \in 1..Len(coin_data) |->
                   [symbol  |-> coin_data[k].symbol,
                    returns |-> PctChangeDropna(coin_data[k].data)]]
        HasReturns(e) == Len(e.returns) > 0
    IN  SelectSeq(all, HasReturns)

\* returns_data of one timeframe: the symbols whose filtered returns reach
\* required_points
ReturnsData(returns, tf) ==
    LET filtered == [k \in 1..Len(returns) |->
                        [symbol  |-> returns[k].symbol,
                         returns |-> FilterPeriod(returns[k].returns, tf)]]
        Enough(e) == Len(e.returns) >= RequiredPoints(tf)
    IN  SelectSeq(filtered, Enough)

\* coins_without_enough_data: symbol -> the first number of its tag, which is
\* len(returns) of the comprehension's own loop variable, the unfiltered
\* return series
CoinsWithoutEnoughData(returns, returns_data) ==
    LET Missing(e) == e.symbol \notin Keys(returns_data)
        without == SelectSeq(returns, Missing)
    IN  [k \in 1..Len(without) |->
            [symbol |-> without[k].symbol, have |-> Len(without[k].returns)]]

\* One iteration of "for period, config in timeframes.items()".
TimeframeOutput(coin_data, returns, tf) ==
    LET returns_data == ReturnsData(returns, tf)
        without == CoinsWithoutEnoughData(returns, returns_data)
        results ==
            CalculateCorrelations(returns_data, RequiredPoints(tf), coin_data)
            \o InsufficientPairs(coin_data, without, RequiredPoints(tf))
    IN  IF returns_data = <<>>
        THEN [status |-> "skipped", results |-> <<>>, ranked |-> <<>>]
        ELSE IF results = <<>>
        THEN [status |-> "empty", results |-> <<>>, ranked |-> <<>>]
        ELSE [status |-> "saved", results |-> results,
              ranked |-> RankResults(results)]

Pending == [status |-> "pending", results |-> <<>>, ranked |-> <<>>]

\* main(), lines 507-516
ProcessSuccessful ==
    /\ pc = "collect"
    /\ all_coin_data' = AllCoinData(top_coins, coin_data_results)
    /\ pc' = IF all_coin_data' = <<>> THEN "fatal" ELSE "returns"
    /\ UNCHANGED <<top_coins, coin_data_results, errors, all_returns,
                   outputs, period>>
    /\ UNCHANGED <<upstreamVars, acqVars, fetchVars, aloneVars>>

\* main(), lines 525-539
CalculateReturns ==
    /\ pc = "returns"
    /\ all_returns' = AllReturns(all_coin_data)
    /\ pc' = IF all_returns' = <<>> THEN "fatal" ELSE "timeframes"
    /\ UNCHANGED <<top_coins, coin_data_results, errors, all_coin_data,
                   outputs, period>>
    /\ UNCHANGED <<upstreamVars, acqVars, fetchVars, aloneVars>>

\* main(), lines 542-610
ProcessTimeframe ==
    /\ pc = "timeframes"
    /\ outputs' = [outputs EXCEPT ![period] =
                      TimeframeOutput(all_coin_data, all_returns,
                                      Timeframes[period])]
    /\ period' = period + 1
    /\ pc' = IF period = Len(Timeframes) THEN "done" ELSE "timeframes"
    /\ UNCHANGED <<top_coins, coin_data_results, errors, all_coin_data,
                   all_returns>>
    /\ UNCHANGED <<upstreamVars, acqVars, fetchVars, aloneVars>>

----------------------------------------------------------------------------
(* The run of main() after acquisition *)

\* get_top_coins(): the universe, by descending market cap (1.5B, 400M,
\* 120M and 50M USD).
TopCoins ==
    << [symbol |-> "BTC",  mcap |-> 150000],
       [symbol |-> "ETH",  mcap |-> 40000],
       [symbol |-> "USDT", mcap |-> 12000],
       [symbol |-> "XRP",  mcap |-> 5000] >>

Reverse(s) == [i \in DOMAIN s |-> s[Len(s) + 1 - i]]

\* What get_historical_data_parallel can return for one symbol: a stored
\* frame, or no frame and an entry of the error map.
Outcomes(sym) ==
    { [ok |-> TRUE, df |-> d] : d \in AcquiredSeries(sym) }
    \cup { [ok |-> FALSE, df |-> <<>>] }

\* The variables of a function that is not running.
UpstreamUnused ==
    /\ binance_klines = [sym \in Symbols |-> <<>>]
    /\ coingecko_prices = [sym \in Symbols |-> <<>>]
    /\ coingecko_listed = [sym \in Symbols |-> FALSE]

AcqIdle ==
    /\ symbols = <<>>
    /\ binance_futures = <<>>
    /\ coingecko_futures = <<>>
    /\ need_coingecko = {}
    /\ acq_results = <<>>
    /\ acq_errors = <<>>
    /\ acq_pc = "idle"

FetchIdle ==
    /\ fetch_symbol = ""
    /\ attempted = <<>>
    /\ outcome = [kind |-> "none", df |-> <<>>, causes |-> <<>>]
    /\ fetch_pc = "idle"

TopIdle ==
    /\ ranking = <<>>
    /\ collected = <<>>
    /\ page = 0
    /\ top_pc = "idle"

FillIdle ==
    /\ raw_klines = <<>>
    /\ normalized = [ok |-> FALSE, df |-> <<>>, cause |-> ""]
    /\ fill_pc = "idle"

RetryIdle ==
    /\ responses = <<>>
    /\ attempt = 0
    /\ waits = <<>>
    /\ retry_outcome = [kind |-> "none", df |-> <<>>]
    /\ retry_pc = "idle"

MainIdle ==
    /\ top_coins = <<>>
    /\ coin_data_results = <<>>
    /\ errors = {}
    /\ all_coin_data = <<>>
    /\ all_returns = <<>>
    /\ outputs = <<>>
    /\ period = 0
    /\ pc = "idle"

\* The state main() is in when get_historical_data_parallel has returned:
\* every symbol has a frame or an error; the frames are in the order the
\* futures completed (here the order of the universe or its reverse).
InitMain ==
    /\ top_coins = TopCoins
    /\ \E o1 \in Outcomes(TopCoins[1].symbol), o2 \in Outcomes(TopCoins[2].symbol),
          o3 \in Outcomes(TopCoins[3].symbol), o4 \in Outcomes(TopCoins[4].symbol),
          order \in {TopCoins, Reverse(TopCoins)} :
          LET got == [sym \in Symbols |->
                         CASE sym = TopCoins[1].symbol -> o1
                           [] sym = TopCoins[2].symbol -> o2
                           [] sym = TopCoins[3].symbol -> o3
                           [] OTHER -> o4]
              done == SelectSeq(order, LAMBDA c : got[c.symbol].ok)
          IN  /\ coin_data_results =
                     [k \in 1..Len(done) |->
                         [symbol |-> done[k].symbol,
                          data   |-> got[done[k].symbol].df]]
              /\ errors = { sym \in Symbols : ~got[sym].ok }
    /\ all_coin_data = <<>>
    /\ all_returns = <<>>
    /\ outputs = [p \in DOMAIN Timeframes |-> Pending]
    /\ period = 1
    /\ pc = "collect"
    /\ UpstreamUnused /\ AcqIdle /\ FetchIdle
    /\ TopIdle /\ FillIdle /\ RetryIdle

NextMain == ProcessSuccessful \/ CalculateReturns \/ ProcessTimeframe

SpecMain == InitMain /\ [][NextMain]_vars

----------------------------------------------------------------------------
(* get_historical_data_parallel(): two thread pools, two phases *)

\* Largest number of entries of the argument list.
MaxCoins == 2

\* ThreadPoolExecutor(max_workers=3), both pools
MaxWorkers == 3

\* The symbols the argument list is drawn from.
AcqSymbols == {"BTC", "USDT"}

\* The argument lists: get_top_coins() appends one entry per coin of the
\* upstream listing, so a ticker two coins share occurs twice.
SymbolLists == UNION { [1..n -> AcqSymbols] : n \in 1..MaxCoins }

\* d[key] = val on a dict that keeps insertion order
Put(d, key, val) ==
    IF key \in Keys(d)
    THEN [i \in DOMAIN d |->
             IF d[i].symbol = key THEN [symbol |-> key, data |-> val]
             ELSE d[i]]
    ELSE Append(d, [symbol |-> key, data |-> val])

\* executor.submit(fn, symbol): a future whose work item is queued
Submitted(sym) ==
    [symbol |-> sym, state |-> "queued",
     ret |-> [ok |-> FALSE, df |-> <<>>, cause |-> ""]]

InState(futures, st) == { i \in DOMAIN futures : futures[i].state = st }

\* A pool thread takes the oldest work item of the queue; there are at
\* most MaxWorkers threads.
CanStart(futures, i) ==
    /\ i \in InState(futures, "queued")
    /\ \A j \in InState(futures, "queued") : i <= j
    /\ Cardinality(InState(futures, "running")) < MaxWorkers

\* as_completed(futures) has yielded every future
Drained(futures) == \A i \in DOMAIN futures : futures[i].state = "consumed"

\* The dict comprehension of lines 392-395 submits one future per entry.
SubmitBinance ==
    /\ acq_pc = "submit_binance"
    /\ binance_futures' =
           Append(binance_futures,
                  Submitted(symbols[Len(binance_futures) + 1]))
    /\ acq_pc' = IF Len(binance_futures') = Len(symbols)
                 THEN "binance_results" ELSE acq_pc
    /\ UNCHANGED <<symbols, coingecko_futures, need_coingecko, acq_results,
                   acq_errors>>
    /\ UNCHANGED <<mainVars, upstreamVars, fetchVars, aloneVars>>

\* A thread of binance_executor starts fetch_single_coin_binance.
StartBinance ==
    /\ \E i \in DOMAIN binance_futures :
          /\ CanStart(binance_futures, i)
          /\ binance_futures' =
                 [binance_futures EXCEPT ![i].state = "running"]
    /\ UNCHANGED <<symbols, coingecko_futures, need_coingecko, acq_results,
                   acq_errors, acq_pc>>
    /\ UNCHANGED <<mainVars, upstreamVars, fetchVars, aloneVars>>

\* fetch_single_coin_binance returns (symbol, df, None) or (symbol, None, e);
\* the request itself may fail.
FinishBinance ==
    /\ \E i \in InState(binance_futures, "running"), transport_ok \in BOOLEAN :
          binance_futures' =
              [binance_futures EXCEPT
                  ![i].state = "finished",
                  ![i].ret = FetchSingleCoinBinance(
                                 binance_futures[i].symbol, transport_ok,
                                 binance_klines[binance_futures[i].symbol])]
    /\ UNCHANGED <<symbols, coingecko_futures, need_coingecko, acq_results,
                   acq_errors, acq_pc>>
    /\ UNCHANGED <<mainVars, upstreamVars, fetchVars, aloneVars>>

\* One round of the loop of lines 402-412 over a finished future; after the
\* last one the function returns (line 414 false) or goes on to phase 2.
ProcessBinance ==
    /\ acq_pc = "binance_results"
    /\ \E i \in InState(binance_futures, "finished") :
          LET f == binance_futures[i]
          IN  /\ binance_futures' =
                     [binance_futures EXCEPT ![i].state = "consumed"]
              /\ acq_results' = IF f.ret.ok
                                THEN Put(acq_results, f.symbol, f.ret.df)
                                ELSE acq_results
              /\ need_coingecko' = IF f.ret.ok THEN need_coingecko
                                   ELSE need_coingecko \cup {f.symbol}
    /\ acq_pc' = IF ~Drained(binance_futures') THEN acq_pc
                 ELSE IF need_coingecko' = {} THEN "returned"
                 ELSE "submit_coingecko"
    /\ UNCHANGED <<symbols, coingecko_futures, acq_errors>>
    /\ UNCHANGED <<mainVars, upstreamVars, fetchVars, aloneVars>>

\* The dict comprehension of lines 416-419: one future per symbol of the
\* set, in the set's iteration order.
SubmitCoingecko ==
    /\ acq_pc = "submit_coingecko"
    /\ \E sym \in need_coingecko \ Keys(coingecko_futures) :
          coingecko_futures' = Append(coingecko_futures, Submitted(sym))
    /\ acq_pc' = IF Keys(coingecko_futures') = need_coingecko
                 THEN "coingecko_results" ELSE acq_pc
    /\ UNCHANGED <<symbols, binance_futures, need_coingecko, acq_results,
                   acq_errors>>
    /\ UNCHANGED <<mainVars, upstreamVars, fetchVars, aloneVars>>

\* A thread of coingecko_executor starts fetch_single_coin_coingecko.
StartCoingecko ==
    /\ \E i \in DOMAIN coingecko_futures :
          /\ CanStart(coingecko_futures, i)
          /\ coingecko_futures' =
                 [coingecko_futures EXCEPT ![i].state = "running"]
    /\ UNCHANGED <<symbols, binance_futures, need_coingecko, acq_results,
                   acq_errors, acq_pc>>
    /\ UNCHANGED <<mainVars, upstreamVars, fetchVars, aloneVars>>

\* fetch_single_coin_coingecko returns; transport_ok is false when the
\* requests failed on every retry.
FinishCoingecko ==
    /\ \E i \in InState(coingecko_futures, "running"),
          transport_ok \in BOOLEAN :
          LET sym == coingecko_futures[i].symbol
          IN  coingecko_futures' =
                  [coingecko_futures EXCEPT
                      ![i].state = "finished",
                      ![i].ret = FetchSingleCoinCoingecko(
                                     sym, transport_ok, coingecko_listed[sym],
                                     coingecko_prices[sym])]
    /\ UNCHANGED <<symbols, binance_futures, need_coingecko, acq_results,
                   acq_errors, acq_pc>>
    /\ UNCHANGED <<mainVars, upstreamVars, fetchVars, aloneVars>>

\* One round of the loop of lines 423-433; after the last one the function
\* returns.
ProcessCoingecko ==
    /\ acq_pc = "coingecko_results"
    /\ \E i \in InState(coingecko_futures, "finished") :
          LET f == coingecko_futures[i]
          IN  /\ coingecko_futures' =
                     [coingecko_futures EXCEPT ![i].state = "consumed"]
              /\ acq_results' = IF f.ret.ok
                                THEN Put(acq_results, f.symbol, f.ret.df)
                                ELSE acq_results
              /\ acq_errors' = IF f.ret.ok THEN acq_errors
                               ELSE Put(acq_errors, f.symbol, f.ret.cause)
    /\ acq_pc' = IF Drained(coingecko_futures') THEN "returned" ELSE acq_pc
    /\ UNCHANGED <<symbols, binance_futures, need_coingecko>>
    /\ UNCHANGED <<mainVars, upstreamVars, fetchVars, aloneVars>>

\* What the primary source may hold for a pair of the call (whole range,
\* two null closes, nothing) and the fallback source for a coin.
PrimaryChoices(sym) ==
    { Rows(sym, 1, Today, {}), Rows(sym, 1, Today, {3, 4}), <<>> }

FallbackChoices(sym) == { Samples(sym, {}), Samples(sym, {2}) }

\* What the two sources hold for the symbols of the call.  The klines of a
\* pair and the samples of a coin are the source's data for the requested
\* range: every request for the same pair reads the same data, and what
\* differs from one request to the next is whether the request gets through.
UpstreamOf(syms) ==
    \E k \in [syms -> UNION { PrimaryChoices(sym) : sym \in syms }],
       m \in [syms -> UNION { FallbackChoices(sym) : sym \in syms }],
       l \in [syms -> BOOLEAN] :
       /\ \A sym \in syms : /\ k[sym] \in PrimaryChoices(sym)
                            /\ m[sym] \in FallbackChoices(sym)
       /\ binance_klines =
              [sym \in Symbols |-> IF sym \in syms THEN k[sym] ELSE <<>>]
       /\ coingecko_prices =
              [sym \in Symbols |-> IF sym \in syms THEN m[sym] ELSE <<>>]
       /\ coingecko_listed =
              [sym \in Symbols |-> IF sym \in syms THEN l[sym] ELSE FALSE]

InitAcq ==
    /\ symbols \in SymbolLists
    /\ UpstreamOf(Range(symbols))
    /\ binance_futures = <<>>
    /\ coingecko_futures = <<>>
    /\ need_coingecko = {}
    /\ acq_results = <<>>
    /\ acq_errors = <<>>
    /\ acq_pc = "submit_binance"
    /\ MainIdle /\ FetchIdle
    /\ TopIdle /\ FillIdle /\ RetryIdle

NextAcq ==
    \/ SubmitBinance \/ StartBinance \/ FinishBinance \/ ProcessBinance
    \/ SubmitCoingecko \/ StartCoingecko \/ FinishCoingecko
    \/ ProcessCoingecko

SpecAcq == InitAcq /\ [][NextAcq]_vars

----------------------------------------------------------------------------
(* get_historical_data(): one symbol, primary source then fallback *)

\* A call that turns to the fallback source whatever the primary source
\* answered.
AfterPrimaryAlways(ok) == "coingecko"

\* Where the call goes after its query of the primary source (the try and
\* except of lines 105-113 and 121-127): it returns, or it turns to the
\* fallback source.

AfterPrimary(ok) == IF ok THEN "done" ELSE "coingecko"

NoOutcome == [kind |-> "none", df |-> <<>>, causes |-> <<>>]

\* The query of the primary source: {symbol}USDT, or USDCUSDT inverted for
\* USDT (lines 104-110 and 121-124).
TryBinance ==
    /\ fetch_pc = "binance"
    /\ \E transport_ok \in BOOLEAN :
          LET got == FetchHistoricalData(transport_ok,
                                         binance_klines[fetch_symbol])
              df  == IF got.ok /\ fetch_symbol = "USDT" THEN Invert(got.df)
                     ELSE got.df
          IN  /\ attempted' =
                     Append(attempted,
                            [source |-> "binance",
                             query  |-> TradingPair(fetch_symbol),
                             ok |-> got.ok, df |-> df, cause |-> got.cause])
              /\ outcome' = IF got.ok
                            THEN [kind |-> "returned", df |-> df,
                                  causes |-> <<>>]
                            ELSE outcome
              /\ fetch_pc' = AfterPrimary(got.ok)
    /\ UNCHANGED fetch_symbol
    /\ UNCHANGED <<mainVars, upstreamVars, acqVars, aloneVars>>

\* The query of the fallback source (lines 113-118 and 127-132): its frame
\* is returned, or the call raises with the causes of both failures.
TryCoingecko ==
    /\ fetch_pc = "coingecko"
    /\ \E transport_ok \in BOOLEAN :
          LET got == FetchCoingeckoData(transport_ok,
                                        coingecko_listed[fetch_symbol],
                                        coingecko_prices[fetch_symbol])
          IN  /\ attempted' =
                     Append(attempted,
                            [source |-> "coingecko",
                             query  |-> [base |-> fetch_symbol,
                                         quote |-> "usd"],
                             ok |-> got.ok, df |-> got.df,
                             cause |-> got.cause])
              /\ outcome' =
                     IF got.ok
                     THEN [kind |-> "returned", df |-> got.df,
                           causes |-> <<>>]
                     ELSE [kind |-> "raised", df |-> <<>>,
                           causes |-> <<attempted[Len(attempted)].cause,
                                        got.cause>>]
    /\ fetch_pc' = "done"
    /\ UNCHANGED fetch_symbol
    /\ UNCHANGED <<mainVars, upstreamVars, acqVars, aloneVars>>

InitFetch ==
    /\ fetch_symbol \in Symbols
    /\ \E k \in KlineChoices(fetch_symbol), m \in SampleChoices(fetch_symbol),
          l \in BOOLEAN :
          /\ binance_klines =
                 [sym \in Symbols |-> IF sym = fetch_symbol THEN k ELSE <<>>]
          /\ coingecko_prices =
                 [sym \in Symbols |-> IF sym = fetch_symbol THEN m ELSE <<>>]
          /\ coingecko_listed =
                 [sym \in Symbols |-> sym = fetch_symbol /\ l]
    /\ attempted = <<>>
    /\ outcome = NoOutcome
    /\ fetch_pc = "binance"
    /\ MainIdle /\ AcqIdle
    /\ TopIdle /\ FillIdle /\ RetryIdle

NextFetch == TryBinance \/ TryCoingecko

SpecFetch == InitFetch /\ [][NextFetch]_vars

----------------------------------------------------------------------------
(* get_top_coins(): paging through the ranking source *)

\* coins_per_page: 100 in the source, 2 here, the 300 of MaxSize scaled alike
PerPage == 2

\* `page <= 3` of the loop condition
PageLimit == 3

\* the 300 of the loop condition, of the break and of coins[:300]: three
\* pages of coins_per_page
MaxSize == PageLimit * PerPage

\* Largest number of pages the ranking source holds.
UpstreamPages == 4

\* The $1M minimum, in units of 10,000 USD.
MinMarketCap == 100

\* The market caps a candidate of the ranking may carry: None, below the
\* minimum, above it.
MarketCaps == {Null, MinMarketCap \div 2, 50 * MinMarketCap}

\* The rankings the source may hold: up to UpstreamPages pages of candidates;
\* a candidate is [rank, market_cap], its rank standing for its symbol.
Rankings ==
    UNION { [1..n -> MarketCaps] : n \in 0..(UpstreamPages * PerPage) }

\* the number of pages of a ranking that hold a candidate
PagesOf(caps) == (Len(caps) + PerPage - 1) \div PerPage

\* the response to a request for page p with per_page = coins_per_page
PageData(caps, p) ==
    LET first == (p - 1) * PerPage + 1
        last  == IF p * PerPage < Len(caps) THEN p * PerPage ELSE Len(caps)
    IN  [k \in 1..(IF last >= first THEN last - first + 1 ELSE 0) |->
            [rank |-> first + k - 1, market_cap |-> caps[first + k - 1]]]

RECURSIVE AppendValid(_, _)
\* the for loop of lines 73-83: skip a coin without a market cap or below
\* the minimum, append the others, break at 300
AppendValid(coins, data) ==
    IF data = <<>> THEN coins
    ELSE IF Head(data).market_cap = Null
            \/ Head(data).market_cap < MinMarketCap
    THEN AppendValid(coins, Tail(data))
    ELSE IF Len(coins) + 1 >= MaxSize THEN Append(coins, Head(data))
    ELSE AppendValid(Append(coins, Head(data)), Tail(data))

\* One round of the while loop of lines 56-90: request a page, append its
\* valid coins, page += 1; a request that fails raises.
RequestPage ==
    /\ top_pc = "loop"
    /\ Len(collected) < MaxSize /\ page <= PageLimit
    /\ \E transport_ok \in BOOLEAN :
          IF transport_ok
          THEN /\ collected' = AppendValid(collected, PageData(ranking, page))
               /\ page' = page + 1
               /\ top_pc' = "loop"
          ELSE /\ top_pc' = "raised"
               /\ UNCHANGED <<collected, page>>
    /\ UNCHANGED ranking
    /\ UNCHANGED <<mainVars, upstreamVars, acqVars, fetchVars, fillVars,
                   retryVars>>

\* The loop condition is false (lines 92-96): raise when no coin is valid,
\* return coins[:300] otherwise.
ReturnCoins ==
    /\ top_pc = "loop"
    /\ ~(Len(collected) < MaxSize /\ page <= PageLimit)
    /\ top_pc' = IF collected = <<>> THEN "raised" ELSE "returned"
    /\ collected' = SubSeq(collected, 1,
                           IF Len(collected) < MaxSize THEN Len(collected)
                           ELSE MaxSize)
    /\ UNCHANGED <<ranking, page>>
    /\ UNCHANGED <<mainVars, upstreamVars, acqVars, fetchVars, fillVars,
                   retryVars>>

InitTop ==
    /\ ranking \in Rankings
    /\ collected = <<>>
    /\ page = 1
    /\ top_pc = "loop"
    /\ MainIdle /\ UpstreamUnused /\ AcqIdle /\ FetchIdle
    /\ FillIdle /\ RetryIdle

NextTop == RequestPage \/ ReturnCoins

SpecTop == InitTop /\ [][NextTop]_vars

----------------------------------------------------------------------------
(* _fetch_historical_data() on its own: the quality check and the fill *)

\* Number of daily rows of the response (the request covers 90 days; 40
\* rows is the fewest that lets 4 null closes pass the 10% check).
FillRows == 40

\* Longest run of null closes in the response.
MaxGap == 5

\* the days first..first+n-1
Run(first, n) == first..(first + n - 1)

\* The null closes of the response: one run of up to MaxGap days, or two
\* runs of up to 2 days each.
NullDays ==
    { Run(s, n) : s \in 1..FillRows, n \in 0..MaxGap }
    \cup { Run(s, n) \cup Run(t, k) :
             s \in 1..FillRows, t \in 1..FillRows, n \in 1..2, k \in 1..2 }

\* The responses: FillRows daily rows of a pair whose close changes every
\* day, with the null closes inside the range.
FillInputs ==
    { Rows("BTC", 1, FillRows, nulls) :
        nulls \in { d \in NullDays : d \subseteq 1..FillRows } }

\* The call: lines 145-170.
Normalize ==
    /\ fill_pc = "call"
    /\ \E transport_ok \in BOOLEAN :
          normalized' = FetchHistoricalData(transport_ok, raw_klines)
    /\ fill_pc' = "done"
    /\ UNCHANGED raw_klines
    /\ UNCHANGED <<mainVars, upstreamVars, acqVars, fetchVars, topVars,
                   retryVars>>

InitFill ==
    /\ raw_klines \in FillInputs
    /\ normalized = [ok |-> FALSE, df |-> <<>>, cause |-> ""]
    /\ fill_pc = "call"
    /\ MainIdle /\ UpstreamUnused /\ AcqIdle /\ FetchIdle
    /\ TopIdle /\ RetryIdle

NextFill == Normalize

SpecFill == InitFill /\ [][NextFill]_vars

----------------------------------------------------------------------------
(* _fetch_coingecko_data() on its own: the retry loop *)

\* max_retries
MaxRetries == 5

\* base_delay, in seconds
BaseDelay == 5

\* A delay that grows by base_delay with every attempt.
DelayLinear(n) == BaseDelay * (n + 1)

\* delay = base_delay * (2 ** attempt), attempt counted from 0
Delay(n) == BaseDelay * (2 ^ n)

\* What the fallback source answers to the requests of one attempt: whether
\* both requests get through (no RequestException, which covers timeouts
\* and the HTTP errors of raise_for_status) and whether /coins/list holds
\* the symbol.
Answers == [transport_ok : BOOLEAN, listed : BOOLEAN]

\* the samples the source holds for the coin
RetrySamples == Samples("BTC", {2})

\* One round of the for loop of lines 177-229: return the frame, raise an
\* error that is no RequestException at once, or, on a RequestException,
\* sleep and go round again unless this was the last attempt.
TryOnce ==
    /\ retry_pc = "loop"
    /\ attempt < MaxRetries
    /\ LET got == FetchCoingeckoData(responses[attempt + 1].transport_ok,
                                     responses[attempt + 1].listed,
                                     RetrySamples)
       IN  IF got.ok
           THEN /\ retry_outcome' = [kind |-> "returned", df |-> got.df]
                /\ retry_pc' = "done"
                /\ UNCHANGED <<attempt, waits>>
           ELSE IF got.cause # "network"
           THEN /\ retry_outcome' = [kind |-> "raised_other", df |-> <<>>]
                /\ retry_pc' = "done"
                /\ UNCHANGED <<attempt, waits>>
           ELSE IF attempt < MaxRetries - 1
           THEN /\ waits' = Append(waits, Delay(attempt))
                /\ attempt' = attempt + 1
                /\ UNCHANGED <<retry_outcome, retry_pc>>
           ELSE /\ retry_outcome' = [kind |-> "raised_transport", df |-> <<>>]
                /\ retry_pc' = "done"
                /\ UNCHANGED <<attempt, waits>>
    /\ UNCHANGED responses
    /\ UNCHANGED <<mainVars, upstreamVars, acqVars, fetchVars, topVars,
                   fillVars>>

InitRetry ==
    /\ responses \in [1..MaxRetries -> Answers]
    /\ attempt = 0
    /\ waits = <<>>
    /\ retry_outcome = [kind |-> "none", df |-> <<>>]
    /\ retry_pc = "loop"
    /\ MainIdle /\ UpstreamUnused /\ AcqIdle /\ FetchIdle
    /\ TopIdle /\ FillIdle

NextRetry == TryOnce

SpecRetry == InitRetry /\ [][NextRetry]_vars

----------------------------------------------------------------------------
(* Properties of the output of main() (SpecMain) *)

\* the timeframes whose loop iteration has run
Processed == { p \in DOMAIN Timeframes : outputs[p].status # "pending" }

\* the results of timeframe p for the unordered pair {a, b}
ResultsFor(p, a, b) ==
    { i \in DOMAIN outputs[p].ranked :
        outputs[p].ranked[i].pair \in {<<a, b>>, <<b, a>>} }

\* the length of a symbol's return series restricted to the window of tf
RestrictedLength(sym, tf) ==
    IF sym \in Keys(all_returns)
    THEN Len(FilterPeriod(Lookup(all_returns, sym).returns, tf))
    ELSE 0

Eligible(sym, tf) == RestrictedLength(sym, tf) >= RequiredPoints(tf)

\* the number of dates two symbols' restricted return series share
Overlap(a, b, tf) ==
    Cardinality(Index(FilterPeriod(Lookup(all_returns, a).returns, tf))
                \cap Index(FilterPeriod(Lookup(all_returns, b).returns, tf)))

\* C1 (as stated; refuted): in every timeframe's output every unordered pair
\* of distinct symbols of the acquired universe has exactly one PairResult.
C1_Completeness ==
    \A p \in Processed :
        \A a, b \in Keys(all_coin_data) :
            a # b => Cardinality(ResultsFor(p, a, b)) = 1

\* C1: no pair ever has two PairResults in one timeframe (the half of the
\* claim the code keeps).
C1_AtMostOnce ==
    \A p \in Processed :
        \A a, b \in Keys(all_coin_data) :
            a # b => Cardinality(ResultsFor(p, a, b)) <= 1

\* C1: a timeframe whose output lacks the pair of two acquired symbols that
\* are both eligible there.
C1_MissingPair ==
    \E p \in Processed : \E a, b \in Keys(all_returns) :
        /\ a # b
        /\ Eligible(a, Timeframes[p]) /\ Eligible(b, Timeframes[p])
        /\ ResultsFor(p, a, b) = {}

\* C2 (as stated; refuted): 30 days at 0.85 require 25 points, and every
\* PairResult that contains a symbol whose restricted return series is
\* shorter than required_points is the error tag
\* insufficient_data(h/required_points), h the restricted length of the
\* symbol the tag names, never a number.
C2_CoverageGating ==
    /\ RequiredPoints(Timeframes[2]) = 25
    /\ \A p \in Processed : \A i \in DOMAIN outputs[p].ranked :
         LET r == outputs[p].ranked[i]
         IN  (\E k \in 1..2 : ~Eligible(r.pair[k], Timeframes[p]))
             => /\ IsError(r)
                /\ r.correlation.coin \in { r.pair[1], r.pair[2] }
                /\ ~Eligible(r.correlation.coin, Timeframes[p])
                /\ r.correlation.need = RequiredPoints(Timeframes[p])
                /\ r.correlation.have =
                       RestrictedLength(r.correlation.coin, Timeframes[p])

\* C2: what the code keeps: such a PairResult is an error tag naming an
\* ineligible member of the pair and required_points, never a number.
C2_NeverNumeric ==
    \A p \in Processed : \A i \in DOMAIN outputs[p].ranked :
        LET r == outputs[p].ranked[i]
        IN  (\E k \in 1..2 : ~Eligible(r.pair[k], Timeframes[p]))
            => /\ IsError(r)
               /\ r.correlation.coin \in { r.pair[1], r.pair[2] }
               /\ r.correlation.need = RequiredPoints(Timeframes[p])

\* C6 (as stated; refuted): every PairResult without an error tag carries a
\* correlation that is a number in [0, 1].
C6_CorrelationBound ==
    \A p \in Processed : \A i \in DOMAIN outputs[p].ranked :
        LET r == outputs[p].ranked[i]
        IN  ~IsError(r) => /\ r.correlation.kind = "num"
                           /\ r.correlation.val \in 0..10000

\* C6: a correlation that is a number is in [0, 1].
C6_NumbersInRange ==
    \A p \in Processed : \A i \in DOMAIN outputs[p].ranked :
        LET r == outputs[p].ranked[i]
        IN  r.correlation.kind = "num" => r.correlation.val \in 0..10000

\* C8 (as stated; refuted): for two symbols both eligible in a timeframe
\* that produced output, fewer shared dates than required_points give the
\* pair an error-tagged PairResult and no other, and enough shared dates
\* give it a PairResult that is not an error tag.
C8_OverlapGating ==
    \A p \in Processed :
        outputs[p].status # "skipped" =>
        \A a, b \in Keys(all_returns) :
            (a # b /\ Eligible(a, Timeframes[p]) /\ Eligible(b, Timeframes[p]))
            => IF Overlap(a, b, Timeframes[p]) < RequiredPoints(Timeframes[p])
               THEN /\ ResultsFor(p, a, b) # {}
                    /\ \A i \in ResultsFor(p, a, b) :
                           IsError(outputs[p].ranked[i])
               ELSE /\ ResultsFor(p, a, b) # {}
                    /\ \A i \in ResultsFor(p, a, b) :
                           ~IsError(outputs[p].ranked[i])

\* C8: the half the code keeps: with enough shared dates the pair has one
\* PairResult, which is no error tag.
C8_EnoughOverlap ==
    \A p \in Processed :
        outputs[p].status # "skipped" =>
        \A a, b \in Keys(all_returns) :
            (/\ a # b /\ Eligible(a, Timeframes[p]) /\ Eligible(b, Timeframes[p])
             /\ Overlap(a, b, Timeframes[p]) >= RequiredPoints(Timeframes[p]))
            => /\ Cardinality(ResultsFor(p, a, b)) = 1
               /\ \A i \in ResultsFor(p, a, b) : ~IsError(outputs[p].ranked[i])

\* the subsequence of error-tagged results
ErrorsOf(results) == SelectSeq(results, IsError)

\* the numeric results are in non-increasing order of correlation (a NaN
\* correlation compares with nothing)
NonIncreasing(results) ==
    \A i, j \in DOMAIN results :
        (/\ i < j
         /\ results[i].correlation.kind = "num"
         /\ results[j].correlation.kind = "num")
        => results[i].correlation.val >= results[j].correlation.val

\* every result without an error tag precedes every error-tagged one
NumericFirst(results) ==
    \A i, j \in DOMAIN results :
        (IsError(results[i]) /\ ~IsError(results[j])) => j < i

\* the position of a result (one per pair) in a sequence of results
PositionIn(results, r) == CHOOSE i \in DOMAIN results : results[i] = r

\* C7 (as stated; refuted): in every ranked output the numeric results come
\* first, in non-increasing order of correlation, and the error-tagged
\* results keep their arrival order among themselves.
C7_RankingKeepsArrivalOrder ==
    \A p \in Processed :
        /\ NumericFirst(outputs[p].ranked)
        /\ NonIncreasing(outputs[p].ranked)
        /\ ErrorsOf(outputs[p].ranked) = ErrorsOf(outputs[p].results)

\* C7 (amended): the ranked output holds the results of the timeframe, each
\* once; results without an error tag precede the error-tagged ones; among
\* the former the numbers are in non-increasing order and precede the NaN
\* ones; the error-tagged results are in non-increasing order of their tag
\* strings; results with the same 'Correlation' value keep arrival order.
C7_Ranking ==
    \A p \in Processed :
        LET ranked == outputs[p].ranked
            results == outputs[p].results
        IN  /\ Len(ranked) = Len(results)
            /\ Range(ranked) = Range(results)
            /\ NumericFirst(ranked)
            /\ NonIncreasing(ranked)
            /\ \A i, j \in DOMAIN ranked :
                 /\ (/\ ranked[i].correlation.kind = "nan"
                     /\ ranked[j].correlation.kind = "num") => j < i
                 /\ (i < j /\ IsError(ranked[i]) /\ IsError(ranked[j]))
                    => ~TagLess(ranked[i].correlation, ranked[j].correlation)
                 /\ (i < j /\ ranked[i].correlation = ranked[j].correlation)
                    => PositionIn(results, ranked[i])
                         < PositionIn(results, ranked[j])

\* C7: a ranked output with a number, and with two error tags that arrived
\* in the other order than the ranking gives them.
C7_Witness ==
    \E p \in Processed :
        LET ranked == outputs[p].ranked
            results == outputs[p].results
        IN  /\ \E i \in DOMAIN ranked : ranked[i].correlation.kind = "num"
            /\ \E i, j \in DOMAIN ranked :
                 /\ i < j /\ IsError(ranked[i]) /\ IsError(ranked[j])
                 /\ PositionIn(results, ranked[j]) < PositionIn(results, ranked[i])

\* get_top_coins() had the universe without symbol c
Excluding(coins, c) == SelectSeq(coins, LAMBDA e : e.symbol # c)

\* a timeframe's output without the pairs that involve symbol c
WithoutPairsOf(out, c) ==
    [out EXCEPT !.results = SelectSeq(@, LAMBDA r : c \notin Range(r.pair)),
                !.ranked  = SelectSeq(@, LAMBDA r : c \notin Range(r.pair))]

\* The output of timeframe p in the run over the same upstream data whose
\* universe never held symbol c: acquisition returns the same frames for
\* the other symbols.
OutputExcluding(c, p) ==
    LET coin_data == AllCoinData(Excluding(top_coins, c),
                                 SelectSeq(coin_data_results,
                                           LAMBDA e : e.symbol # c))
    IN  TimeframeOutput(coin_data, AllReturns(coin_data), Timeframes[p])

\* the symbols that failed acquisition entirely: an error and no frame
FailedEntirely == errors \ Keys(coin_data_results)

\* C5: when main() has finished, for every symbol C that failed acquisition
\* entirely and every timeframe, the results of the pairs not involving C
\* (their presence, values, market caps and rank) are those of the run in
\* which C was excluded from the universe up front.
C5_PartialFailureIsolation ==
    pc = "done" =>
        \A c \in FailedEntirely : \A p \in DOMAIN Timeframes :
            WithoutPairsOf(outputs[p], c) = OutputExcluding(c, p)

\* C5: a finished run in which a symbol failed entirely, a symbol ranked
\* below it in the universe has a frame, and a timeframe has a numeric
\* result.
C5_Witness ==
    /\ pc = "done"
    /\ \E c \in FailedEntirely : \E i, j \in DOMAIN top_coins :
         /\ i < j /\ top_coins[i].symbol = c
         /\ top_coins[j].symbol \in Keys(all_coin_data)
    /\ \E p \in DOMAIN Timeframes : \E i \in DOMAIN outputs[p].ranked :
         outputs[p].ranked[i].correlation.kind = "num"

----------------------------------------------------------------------------
(* Properties of get_historical_data_parallel() (SpecAcq) *)

\* the futures of a symbol
FuturesOf(futures, sym) ==
    { i \in DOMAIN futures : futures[i].symbol = sym }

\* the attempt of a future has completed, and how
Completed(f) == f.state \in {"finished", "consumed"}

Succeeded(f) == Completed(f) /\ f.ret.ok

Failed(f) == Completed(f) /\ ~f.ret.ok

\* No fallback request is dispatched before every primary attempt has
\* completed.
C3_Barrier ==
    coingecko_futures # <<>> =>
        /\ Len(binance_futures) = Len(symbols)
        /\ \A i \in DOMAIN binance_futures : Completed(binance_futures[i])

\* A fallback request is dispatched only for a symbol one of whose primary
\* attempts failed.
C3_OnlyAfterFailure ==
    \A j \in DOMAIN coingecko_futures :
        \E i \in FuturesOf(binance_futures, coingecko_futures[j].symbol) :
            Failed(binance_futures[i])

\* C3: two-phase acquisition barrier.  Under every interleaving no
\* fallback request is dispatched before every primary attempt of phase 1
\* has completed, and a fallback request is dispatched only for a symbol
\* whose primary attempt failed, never for a symbol whose primary attempt
\* succeeded.
C3_TwoPhaseBarrier ==
    /\ C3_Barrier
    /\ C3_OnlyAfterFailure
    /\ \A j \in DOMAIN coingecko_futures :
           \A i \in FuturesOf(binance_futures, coingecko_futures[j].symbol) :
               ~Succeeded(binance_futures[i])

\* A fallback request has been dispatched for a symbol that has a primary
\* attempt that succeeded.
C3_Witness ==
    \E j \in DOMAIN coingecko_futures :
        \E i \in FuturesOf(binance_futures, coingecko_futures[j].symbol) :
            Succeeded(binance_futures[i])

\* The call is never stuck before it returns.
C4_Returns == acq_pc # "returned" => ENABLED NextAcq

\* Every symbol one of whose attempts succeeded has a series in the map
\* that is returned, and every symbol has a series or an error.
C4_NoneLost ==
    acq_pc = "returned" =>
        \A sym \in Range(symbols) :
            /\ sym \in Keys(acq_results) \cup Keys(acq_errors)
            /\ ( \/ \E i \in FuturesOf(binance_futures, sym) :
                        Succeeded(binance_futures[i])
                 \/ \E j \in FuturesOf(coingecko_futures, sym) :
                        Succeeded(coingecko_futures[j]) )
               => sym \in Keys(acq_results)

\* C4: batch isolation in acquisition.  For any combination of per-symbol
\* failures the call returns its (series map, error map); a symbol whose
\* primary attempt and fallback attempt both failed has an entry in the
\* error map and no entry in the series map, and the series of every other
\* symbol is returned.
C4_BatchIsolation ==
    /\ C4_Returns
    /\ C4_NoneLost
    /\ acq_pc = "returned" =>
           \A sym \in Range(symbols) :
               ( /\ \E i \in FuturesOf(binance_futures, sym) :
                        Failed(binance_futures[i])
                 /\ \E j \in FuturesOf(coingecko_futures, sym) :
                        Failed(coingecko_futures[j]) )
               => /\ sym \in Keys(acq_errors)
                  /\ sym \notin Keys(acq_results)

\* The call has returned a symbol in both maps.
C4_Witness ==
    /\ acq_pc = "returned"
    /\ Keys(acq_results) \cap Keys(acq_errors) # {}

\* the primary source's response for the pair of a symbol has more than 10%
\* null closes
TooManyNulls(sym) ==
    /\ binance_klines[sym] # <<>>
    /\ 10 * Cardinality({ i \in DOMAIN binance_klines[sym] :
                            binance_klines[sym][i].close = Null })
         > Len(binance_klines[sym])

\* the frame holds one row a day, from the first to the last day the
\* fallback has a sample of, each with the last sample of its day (no
\* close when the day has no sample)
IsLastOfDay(df, prices) ==
    LET days == { prices[i].ts : i \in DOMAIN prices }
        On(t) == { i \in DOMAIN prices : prices[i].ts = t }
    IN  /\ \A k \in DOMAIN df :
               /\ k > 1 => df[k].ts = df[k - 1].ts + 1
               /\ IF df[k].ts \in days
                  THEN \E i \in On(df[k].ts) :
                          /\ \A j \in On(df[k].ts) : j <= i
                          /\ df[k].close = prices[i].close
                  ELSE df[k].close = Null
        /\ days # {} =>
               /\ df # <<>>
               /\ \A t \in days : df[1].ts <= t /\ t <= df[Len(df)].ts
               /\ df[1].ts \in days /\ df[Len(df)].ts \in days
        /\ days = {} => df = <<>>

\* C9: fallback correctness.  When the primary source's response for the
\* pair of a symbol has more than 10% null closes, every primary attempt
\* for the symbol is rejected, the fallback is queried for the symbol
\* before the call returns, and a series stored for the symbol holds
\* exactly the fallback's prices resampled to the last observation of each
\* day.
C9_FallbackCorrectness ==
    \A sym \in Range(symbols) :
        TooManyNulls(sym) =>
            /\ \A i \in FuturesOf(binance_futures, sym) :
                   ~Succeeded(binance_futures[i])
            /\ acq_pc = "returned" =>
                   \E j \in FuturesOf(coingecko_futures, sym) :
                       Completed(coingecko_futures[j])
            /\ sym \in Keys(acq_results) =>
                   IsLastOfDay(Lookup(acq_results, sym).data,
                               coingecko_prices[sym])

\* The call has returned a series of the fallback for a symbol whose primary
\* response had too many null closes; the fallback had no sample on one of
\* the days, which the series holds without a close.
C9_Witness ==
    /\ acq_pc = "returned"
    /\ \E sym \in Range(symbols) :
          /\ TooManyNulls(sym)
          /\ sym \in Keys(acq_results)
          /\ Len(Lookup(acq_results, sym).data) > 2
          /\ \E k \in DOMAIN Lookup(acq_results, sym).data :
                 Lookup(acq_results, sym).data[k].close = Null

----------------------------------------------------------------------------
(* Properties of get_historical_data() (SpecFetch) *)

\* the kind of candidate a query of the primary source is for a symbol
CandidateKind(sym, q) ==
    IF q.base = sym /\ q.quote = "USDT" THEN "direct"
    ELSE IF q.quote = sym THEN "inverse"
    ELSE "cross_quote"

PrimaryAttempts == { i \in DOMAIN attempted : attempted[i].source = "binance" }

FallbackAttempts ==
    { i \in DOMAIN attempted : attempted[i].source = "coingecko" }

\* the first successful series is returned and nothing is queried after it;
\* the call raises only when every query made has failed, naming the causes
FirstSuccessOrAllCauses ==
    /\ \A i \in DOMAIN attempted : attempted[i].ok => i = Len(attempted)
    /\ outcome.kind = "returned" =>
           /\ attempted # <<>>
           /\ attempted[Len(attempted)].ok
           /\ outcome.df = attempted[Len(attempted)].df
    /\ outcome.kind = "raised" =>
           /\ FallbackAttempts # {}
           /\ \A i \in DOMAIN attempted : ~attempted[i].ok
           /\ outcome.causes = [i \in DOMAIN attempted |-> attempted[i].cause]
    /\ fetch_pc = "done" => outcome.kind \in {"returned", "raised"}

\* C10 as stated: the primary candidates direct pair, inverse pair and
\* cross-quote pair are tried in that order, the fallback is queried only
\* after every one of them has failed, the first successful series is
\* returned, and the call fails, naming the causes, only after every
\* primary candidate and the fallback have been attempted and have failed.
C10_ExhaustiveChain ==
    /\ FirstSuccessOrAllCauses
    /\ \A i \in FallbackAttempts :
           /\ Len(attempted) >= 4
           /\ i = 4
           /\ \A k \in 1..3 : attempted[k].source = "binance"
           /\ CandidateKind(fetch_symbol, attempted[1].query) = "direct"
           /\ CandidateKind(fetch_symbol, attempted[2].query) = "inverse"
           /\ CandidateKind(fetch_symbol, attempted[3].query) = "cross_quote"

\* C10, amended: the call makes one query of the primary source (the pair
\* of the symbol against USDT, or USDCUSDT inverted for USDT), queries the
\* fallback only after that query has failed, returns the first successful
\* series, and fails, naming the causes of both queries, only after both
\* have been attempted and have failed.
C10_FallbackChain ==
    /\ FirstSuccessOrAllCauses
    /\ Len(attempted) <= 2
    /\ \A i \in PrimaryAttempts :
           /\ i = 1
           /\ attempted[i].query = TradingPair(fetch_symbol)
    /\ \A i \in FallbackAttempts :
           /\ i = 2
           /\ attempted[1].source = "binance"
           /\ ~attempted[1].ok
           /\ attempted[i].query.base = fetch_symbol
    /\ outcome.kind = "raised" => Len(attempted) = 2
    /\ fetch_pc = "done" => attempted # <<>>

\* The call has raised after the primary query and the fallback query both
\* failed.
C10_Witness ==
    /\ fetch_pc = "done"
    /\ outcome.kind = "raised"
    /\ Len(attempted) = 2

----------------------------------------------------------------------------
(* Properties of get_top_coins() (SpecTop) *)

\* the pages requested so far
PagesRead == page - 1

\* The list returned never has more than MaxSize coins.
C11_AtMostMaxSize ==
    top_pc = "returned" => Len(collected) <= MaxSize

\* A call that returns fewer than MaxSize coins has read every page of the
\* ranking that lies within the first PageLimit pages.
C11_ReadsUpToPageLimit ==
    (top_pc = "returned" /\ Len(collected) < MaxSize) =>
        /\ PagesRead = PageLimit
        /\ \A p \in 1..PageLimit :
               \A k \in DOMAIN PageData(ranking, p) :
                   LET c == PageData(ranking, p)[k]
                   IN  (c.market_cap # Null /\ c.market_cap >= MinMarketCap)
                       => \E i \in DOMAIN collected : collected[i] = c

\* C11: universe pagination.  The call keeps requesting pages until
\* MaxSize coins that pass the market-cap filter are collected or the
\* ranking has no more candidates: it never returns fewer than MaxSize
\* coins while the ranking still has unread pages, and it never returns
\* more than MaxSize coins.
C11_UniversePagination ==
    /\ C11_AtMostMaxSize
    /\ (top_pc = "returned" /\ Len(collected) < MaxSize) =>
           PagesRead >= PagesOf(ranking)

\* The call has returned fewer than MaxSize coins and has not read a page
\* of the ranking that holds a coin passing the filter.
C11_Witness ==
    /\ top_pc = "returned"
    /\ Len(collected) < MaxSize
    /\ \E p \in (PagesRead + 1)..PagesOf(ranking) :
          \E k \in DOMAIN PageData(ranking, p) :
              PageData(ranking, p)[k].market_cap >= MinMarketCap

----------------------------------------------------------------------------
(* Properties of the fill of _fetch_historical_data() (SpecFill) *)

\* the call has returned a frame
Normalized == fill_pc = "done" /\ normalized.ok

\* the rows i..j of the response are a maximal run of null closes that
\* follows a row with a close
IsGap(i, j) ==
    /\ 1 < i /\ i <= j /\ j <= Len(raw_klines)
    /\ \A k \in i..j : raw_klines[k].close = Null
    /\ raw_klines[i - 1].close # Null
    /\ j < Len(raw_klines) => raw_klines[j + 1].close # Null

Gaps ==
    { g \in (DOMAIN raw_klines) \X (DOMAIN raw_klines) : IsGap(g[1], g[2]) }

\* A run of at most 3 missing closes is filled with the last preceding
\* close, and a close that is present is kept.
C12_ShortGapsFilled ==
    Normalized =>
        /\ Len(normalized.df) = Len(raw_klines)
        /\ \A k \in DOMAIN raw_klines :
               raw_klines[k].close # Null => normalized.df[k] = raw_klines[k]
        /\ \A g \in Gaps :
               g[2] - g[1] + 1 <= 3 =>
                   \A k \in g[1]..g[2] :
                       normalized.df[k].close = raw_klines[g[1] - 1].close

\* What ffill(limit=3) does to a longer run: its first 3 points are filled
\* and the others stay missing.
C12_LongGapsPartlyFilled ==
    Normalized =>
        \A g \in Gaps :
            g[2] - g[1] + 1 > 3 =>
                \A k \in g[1]..g[2] :
                    normalized.df[k].close =
                        IF k - g[1] < 3 THEN raw_klines[g[1] - 1].close
                        ELSE Null

\* C12: gap filling.  In the frame returned, a run of at most 3
\* consecutive missing closes is forward-filled with the last preceding
\* close, and a run of more than 3 consecutive missing closes has none of
\* its points filled: every point of a longer gap stays missing.
C12_GapFilling ==
    /\ C12_ShortGapsFilled
    /\ Normalized =>
           \A g \in Gaps :
               g[2] - g[1] + 1 > 3 =>
                   \A k \in g[1]..g[2] : normalized.df[k].close = Null

\* The call has returned a frame for a response with a run of more than 3
\* missing closes, and has filled a point of the run.
C12_Witness ==
    /\ Normalized
    /\ \E g \in Gaps :
          /\ g[2] - g[1] + 1 > 3
          /\ normalized.df[g[1]].close # Null

----------------------------------------------------------------------------
(* The outcome of get_historical_data_parallel() (SpecAcq) *)

\* the symbols that occur more than once in the argument list
Repeated ==
    { sym \in Range(symbols) :
        Cardinality({ i \in DOMAIN symbols : symbols[i] = sym }) > 1 }

\* Every symbol of the list is in one of the two maps, and the maps hold
\* no other symbol.
C13_Covered ==
    acq_pc = "returned" =>
        Keys(acq_results) \cup Keys(acq_errors) = Range(symbols)

\* A symbol that is in both maps occurs more than once in the list.
C13_OnlyRepeatedInBoth ==
    acq_pc = "returned" =>
        Keys(acq_results) \cap Keys(acq_errors) \subseteq Repeated

\* C13: outcome partition of acquisition.  After the call has returned,
\* for any list of entries (a symbol may occur more than once), any
\* interleaving and any success or failure of the requests, the key sets of
\* the series map and of the error map are disjoint and their union is the
\* set of the symbols of the list.
C13_OutcomePartition ==
    acq_pc = "returned" =>
        /\ Keys(acq_results) \cap Keys(acq_errors) = {}
        /\ Keys(acq_results) \cup Keys(acq_errors) = Range(symbols)

\* The call has returned a symbol that occurs twice in the list both with
\* a series of the primary source and with an error of the fallback.
C13_Witness ==
    /\ acq_pc = "returned"
    /\ \E sym \in Repeated :
          /\ sym \in Keys(acq_results)
          /\ sym \in Keys(acq_errors)
          /\ \E i \in FuturesOf(binance_futures, sym) :
                 /\ Succeeded(binance_futures[i])
                 /\ Lookup(acq_results, sym).data = binance_futures[i].ret.df

----------------------------------------------------------------------------
(* Properties of the retry loop of _fetch_coingecko_data() (SpecRetry) *)

\* the answer to the k-th attempt (k counted from 1) is a transport error
TransportError(k) == ~responses[k].transport_ok

\* the attempts started so far, counted from 1: one per wait, and the one
\* under way or that ended the call
AttemptsMade == Len(waits) + 1

\* C14: bounded retry of the fallback fetch.  The call makes at most 5
\* attempts; a transport error on attempt k of 1 to 4 leads to a wait of
\* 5 * 2^(k-1) seconds and then to a new attempt; a transport error on the
\* 5th attempt is raised; an error that is not a transport error is raised
\* at once; the call ends by returning a series or by raising, never
\* without a value, and it can always take its next step until then.
C14_BoundedRetry ==
    /\ AttemptsMade <= MaxRetries
    /\ attempt = Len(waits)
    /\ \A k \in DOMAIN waits :
           /\ k <= MaxRetries - 1
           /\ TransportError(k)
           /\ waits[k] = 5 * (2 ^ (k - 1))
    /\ retry_pc = "loop" => /\ retry_outcome.kind = "none"
                            /\ ENABLED NextRetry
    /\ retry_pc = "done" =>
           /\ retry_outcome.kind \in
                  {"returned", "raised_transport", "raised_other"}
           /\ retry_outcome.kind = "raised_transport" <=>
                  (AttemptsMade = MaxRetries /\ TransportError(MaxRetries))
           /\ retry_outcome.kind = "raised_other" <=>
                  ( /\ ~TransportError(AttemptsMade)
                    /\ ~responses[AttemptsMade].listed )
           /\ retry_outcome.kind = "returned" <=>
                  ( /\ ~TransportError(AttemptsMade)
                    /\ responses[AttemptsMade].listed )
           /\ retry_outcome.kind = "returned" =>
                  IsLastOfDay(retry_outcome.df, RetrySamples)

\* The call has raised the transport error of its 5th attempt after waits
\* of 5, 10, 20 and 40 seconds.
C14_Witness ==
    /\ retry_pc = "done"
    /\ retry_outcome.kind = "raised_transport"
    /\ waits = <<5, 10, 20, 40>>

=============================================================================
